---- MODULE Spec2Model ----
(***************************************************************************)
(* Telegram media archiver (src/bot.py): the group buffer of handle_media  *)
(* and the archive operation MediaArchiver.save_media_group.               *)
(*                                                                         *)
(* One handle_media coroutine runs per inbound photo message.  A coroutine *)
(* runs without interruption from one await to the next, so every action   *)
(* below is the code between two suspension points: asyncio.sleep(1),      *)
(* photo.get_file(), file.download_to_drive() and message.reply_text().    *)
(* Message k of the run is handled by coroutine k.  Coroutines of several  *)
(* messages may be in flight at once: the buffer of line 37 and the sleep  *)
(* of line 159 exist for that case.  The runs of a dispatcher that starts  *)
(* a coroutine only after the previous one has ended are among the         *)
(* behaviours: they are those in which a message arrives only when every   *)
(* earlier coroutine is done.                                              *)
(***************************************************************************)
EXTENDS Integers, Sequences, FiniteSets, TLC

\* Number of inbound photo messages of a run.
MaxMsgs == 2
\* Number of distinct platform-supplied media_group_id values.
MaxGroups == 1

Msgs == 1..MaxMsgs
\* Platform media_group_id values are strings of digits.
GroupIds == {ToString(i) : i \in 1..MaxGroups}
\* message.media_group_id of a message outside any album (None).
NoGroup == ""
\* A list object is allocated by media_group_buffer[...] on a missing key
\* (lines 156 and 162) and by the literal [message] (line 183).
MaxLists == 2 * MaxMsgs
ListIds == 1..MaxLists
\* media_group_buffer has no key for the group id.
NoEntry == 0
\* group_NNNN folders: group_count = len(groups) + 1 <= MaxMsgs.
Folders == 1..MaxMsgs

VARIABLES
    nextMsg,        \* number of messages delivered so far
    group,          \* group[m]: media_group_id of message m
    caption,        \* caption[m]: message.caption of message m
    pc,             \* pc[h]: where coroutine h is suspended
    loc,            \* loc[h]: locals of h's save_media_group call
    lists,          \* heap of Python list objects: lists[l] is a sequence of messages
    nextList,       \* number of list objects allocated
    buffer,         \* media_group_buffer: group id -> list object (or NoEntry)
    metadata,       \* archiver.metadata (in memory)
    metadata_file,  \* contents of metadata.json on disk
    dirs,           \* media_groups/group_NNNN folders on disk
    result,         \* result[h]: outcome of h's save_media_group call
    replied,        \* replied[h]: h called message.reply_text
    saveCalls,      \* history: number of save_media_group calls per group id
    late,           \* history: group ids appended to after a flush check of theirs ran
    gapBroken,      \* history: group ids with a message that arrived after the
                    \* previous message's sleep had expired
    overlap,        \* history: an archive started while another was in progress
    succFolders,    \* history: folder numbers of the successful archives, in order
    stats_text      \* the counts of the last text built by stats_command

vars == <<nextMsg, group, caption, pc, loc, lists, nextList, buffer, metadata,
          metadata_file, dirs, result, replied, saveCalls, late, gapBroken,
          overlap, succFolders, stats_text>>

----------------------------------------------------------------------------
\* Values

\* Variant of SingleId: the prefix is left out.
SingleIdNoPrefix(m) == ToString(m)

\* single_id = f"single_{message.message_id}"
SingleId(m) == "single_" \o ToString(m)

AllIds == GroupIds \cup {SingleId(m) : m \in Msgs}

\* {'groups': [], 'total_files': 0}
EmptyIndex == [groups |-> <<>>, total_files |-> 0]

\* JSON documents, as json.dump writes and json.load reads them: numbers,
\* strings, arrays, and objects as the sequence of their <<key, value>>
\* members in the order written.
JNumber(n) == [type |-> "number", value |-> n]
JString(s) == [type |-> "string", value |-> s]
JArray(vs) == [type |-> "array", value |-> vs]
JObject(ms) == [type |-> "object", value |-> ms]

\* json.dump of one summary of metadata['groups'] (the dict of lines 125-131,
\* members in insertion order).
DumpSummary(g) ==
    JObject(<< <<"group_id", JString(g.group_id)>>,
               <<"folder", JString(g.folder)>>,
               <<"files_count", JNumber(g.files_count)>>,
               <<"caption", JString(g.caption)>> >>)

\* json.dump(self.metadata, f, ...) of line 64.
json_dump(md) ==
    JObject(<< <<"groups", JArray([i \in DOMAIN md.groups |->
                                      DumpSummary(md.groups[i])])>>,
               <<"total_files", JNumber(md.total_files)>> >>)

\* The value of member k of an object: of several members named k, the last.
Member(ms, k) ==
    LET i == CHOOSE i \in DOMAIN ms :
                 /\ ms[i][1] = k
                 /\ \A j \in DOMAIN ms : ms[j][1] = k => j <= i
    IN ms[i][2]

\* json.load: an object becomes a dict, an array a list, a number an int and
\* a string a str.
RECURSIVE json_load(_)
json_load(v) ==
    CASE v.type = "object" ->
           [k \in {v.value[i][1] : i \in DOMAIN v.value} |->
               json_load(Member(v.value, k))]
      [] v.type = "array" -> [i \in DOMAIN v.value |-> json_load(v.value[i])]
      [] OTHER -> v.value

\* metadata.json: it does not exist, holds a truncated, partially written
\* text, or holds the complete JSON text of an index.
Absent == [state |-> "absent", doc |-> JObject(<<>>)]
Partial == [state |-> "partial", doc |-> JObject(<<>>)]
Written(md) == [state |-> "written", doc |-> json_dump(md)]

\* json.load raised on a text that is no JSON document.
JSONDecodeError == [raised |-> "JSONDecodeError"]

\* A caption is a text and a length: [text |-> t, len |-> n] is the first n
\* characters of text t.  Text m is what the sender typed under message m;
\* the empty text stands for message.caption None or ''.
NoCaption == [text |-> 0, len |-> 0]

\* The slice bound of group_info['caption'][:100].
CaptionLimit == 100

\* The captions message m may carry: none, a short one, one over the limit.
Captions(m) == {NoCaption, [text |-> m, len |-> 1],
                [text |-> m, len |-> CaptionLimit + 1]}

\* caption[:k]
Slice(c, k) == [text |-> c.text, len |-> IF c.len < k THEN c.len ELSE k]

\* info.json of a folder does not exist.
NoInfo == [media_group_id |-> NoGroup, caption |-> NoCaption,
           message_count |-> 0, files |-> <<>>]

NoLoc == [gid |-> NoGroup, folder |-> 0, caption |-> NoCaption,
          message_count |-> 0, list |-> 0, idx |-> 0, files |-> <<>>]

\* photos: the photo_NN files of the folder, as pairs <<name, message downloaded>>.
EmptyDir == [exists |-> FALSE, photos |-> {}, info |-> NoInfo]

\* stats_command has not run yet.
NoStats == [sent |-> FALSE, groups |-> 0, total_files |-> 0]

\* Coroutine positions inside save_media_group.
InArchive == {"get_file", "download"}

Failures == {"fail_mkdir", "fail_get_file", "fail_download", "fail_info",
             "fail_index"}

\* Variant of load_metadata: the file is not looked at.
load_metadataIgnoresFile(file) == EmptyIndex

\* _load_metadata (lines 54-59) on the given contents of metadata.json.
load_metadata(file) ==
    CASE file.state = "absent" -> EmptyIndex
      [] file.state = "written" -> json_load(file.doc)
      [] OTHER -> JSONDecodeError

RECURSIVE SumFiles(_)
SumFiles(gs) == IF gs = <<>> THEN 0
                ELSE gs[1].files_count + SumFiles(Tail(gs))

----------------------------------------------------------------------------
\* No message has arrived yet.
NoTraffic ==
    /\ nextMsg = 0
    /\ group = [m \in Msgs |-> NoGroup]
    /\ caption = [m \in Msgs |-> NoCaption]
    /\ pc = [h \in Msgs |-> "idle"]
    /\ loc = [h \in Msgs |-> NoLoc]
    /\ lists = [l \in ListIds |-> <<>>]
    /\ nextList = 0
    /\ buffer = [g \in GroupIds |-> NoEntry]
    /\ dirs = [f \in Folders |-> EmptyDir]
    /\ result = [h \in Msgs |-> "none"]
    /\ replied = [h \in Msgs |-> FALSE]
    /\ saveCalls = [g \in AllIds |-> 0]
    /\ late = {}
    /\ gapBroken = {}
    /\ overlap = FALSE
    /\ succFolders = <<>>
    /\ stats_text = NoStats

\* Lines 46-52 and 144 on a fresh download directory: metadata.json does not
\* exist and _load_metadata returns the empty index.
Init ==
    /\ NoTraffic
    /\ metadata_file = Absent
    /\ metadata = load_metadata(metadata_file)

----------------------------------------------------------------------------
\* MediaArchiver

\* Variant of CaptionAt: the test idx == 1 is left out.
CaptionAtAnyIdx(idx, msgCaption, current) ==
    IF msgCaption # NoCaption THEN msgCaption ELSE current

\* Lines 88-89, for the message at position idx of the loop: the caption of
\* group_info afterwards (current before).
CaptionAt(idx, msgCaption, current) ==
    IF idx = 1 /\ msgCaption # NoCaption THEN msgCaption ELSE current

\* Line 130: group_info['caption'][:100] if group_info['caption'] else ''
SummaryCaption(cap) ==
    IF cap # NoCaption THEN Slice(cap, CaptionLimit) ELSE NoCaption

\* Variant of CommitIndex: the summary is put in front of the list.
CommitIndexPrepends(md, gid, folder, nfiles, cap) ==
    [groups |-> <<[group_id |-> gid, folder |-> folder,
                   files_count |-> nfiles,
                   caption |-> SummaryCaption(cap)]>> \o md.groups,
     total_files |-> md.total_files + nfiles]

\* Variant of CommitIndex: the counter counts archived groups, not files.
CommitIndexCountsGroups(md, gid, folder, nfiles, cap) ==
    [groups |-> Append(md.groups,
                       [group_id |-> gid, folder |-> folder,
                        files_count |-> nfiles,
                        caption |-> SummaryCaption(cap)]),
     total_files |-> md.total_files + 1]

\* Lines 125-132: the summary appended to metadata['groups'] and the counter.
CommitIndex(md, gid, folder, nfiles, cap) ==
    [groups |-> Append(md.groups,
                       [group_id |-> gid, folder |-> folder,
                        files_count |-> nfiles,
                        caption |-> SummaryCaption(cap)]),
     total_files |-> md.total_files + nfiles]

\* _save_metadata (lines 61-64): the contents of metadata.json afterwards.
\* open(..., 'w') may raise before it truncates the file; json.dump may raise
\* after the file was truncated and partly written.
SaveOutcomes == {"ok", "open_fail", "write_fail"}
save_metadata(md, file, outcome) ==
    CASE outcome = "ok" -> Written(md)
      [] outcome = "open_fail" -> file
      [] OTHER -> Partial

\* Variant of Filename: the index is not padded.
FilenameUnpadded(idx) == "photo_" \o ToString(idx)

\* Line 103: f'photo_{idx:02d}', the index padded with zeros to two digits
\* (the extension is the one of the remote file path).
Filename(idx) ==
    "photo_" \o (IF idx < 10 THEN "0" ELSE "") \o ToString(idx)

\* download_to_drive(group_dir / photo_NN.ext): writes or overwrites the file.
PutPhoto(photos, filename, m) ==
    {p \in photos : p[1] # filename} \cup {<<filename, m>>}

----------------------------------------------------------------------------
\* handle_media after save_media_group returned

\* Line 175: del media_group_buffer[media_group_id]; a missing key raises
\* KeyError out of handle_media.
del_entry(h, g) ==
    IF buffer[g] # NoEntry
    THEN /\ buffer' = [buffer EXCEPT ![g] = NoEntry]
         /\ pc' = [pc EXCEPT ![h] = "done"]
    ELSE /\ pc' = [pc EXCEPT ![h] = "raised"]
         /\ UNCHANGED buffer

\* Variant of AfterSave: the confirmation is not conditioned on success.
AfterSaveAlwaysReplies(h, g, success) ==
    /\ replied' = [replied EXCEPT ![h] = TRUE]
    /\ pc' = [pc EXCEPT ![h] = "reply"]
    /\ UNCHANGED buffer

\* Lines 168-175 (album) and 185-186 (single photo), up to the next await.
AfterSave(h, g, success) ==
    IF success
    THEN /\ replied' = [replied EXCEPT ![h] = TRUE]
         /\ pc' = [pc EXCEPT ![h] = "reply"]
         /\ UNCHANGED buffer
    ELSE /\ UNCHANGED replied
         /\ IF g # NoGroup
            THEN del_entry(h, g)
            ELSE /\ pc' = [pc EXCEPT ![h] = "done"]
                 /\ UNCHANGED buffer

\* save_media_group returns (line 136 or 140) and handle_media goes on.
save_return(h, g, r, folder) ==
    /\ result' = [result EXCEPT ![h] = r]
    /\ succFolders' = IF r = "ok" THEN Append(succFolders, folder)
                      ELSE succFolders
    /\ AfterSave(h, g, r = "ok")

\* Lines 68-99: save_media_group up to the first get_file await.  l is the
\* list object passed as messages, n its length at the call, cap the caption
\* of its first message.
save_begin(h, g, gid, l, n, cap) ==
    \E mkdirOK \in BOOLEAN :
        LET group_count == Len(metadata.groups) + 1 IN
        /\ saveCalls' = [saveCalls EXCEPT ![gid] = @ + 1]
        /\ overlap' = (overlap \/ \E k \in Msgs \ {h} : pc[k] \in InArchive)
        /\ UNCHANGED <<metadata, metadata_file>>
        /\ IF mkdirOK
           THEN /\ dirs' = [dirs EXCEPT ![group_count].exists = TRUE]
                /\ loc' = [loc EXCEPT ![h] =
                             [gid |-> gid, folder |-> group_count,
                              caption |-> CaptionAt(1, cap, NoCaption),
                              message_count |-> n, list |-> l, idx |-> 1,
                              files |-> <<>>]]
                /\ pc' = [pc EXCEPT ![h] = "get_file"]
                /\ UNCHANGED <<result, replied, buffer, succFolders>>
           ELSE /\ UNCHANGED <<dirs, loc>>
                /\ save_return(h, g, "fail_mkdir", group_count)

----------------------------------------------------------------------------
\* Actions

\* A flush check of group g has run: some coroutine of g came back from sleep.
Checked(g) == \E k \in Msgs : group[k] = g /\ pc[k] \notin {"idle", "sleep"}

\* Lines 152-159: a message of album g with caption c arrives, is appended to the buffer
\* entry (created by the defaultdict if missing) and the coroutine sleeps.
ArriveGrouped(g, c) ==
    /\ nextMsg < MaxMsgs
    /\ LET m == nextMsg + 1
           prev == {k \in 1..nextMsg : group[k] = g}
       IN
        /\ nextMsg' = m
        /\ caption' = [caption EXCEPT ![m] = c]
        /\ group' = [group EXCEPT ![m] = g]
        /\ IF buffer[g] = NoEntry
           THEN /\ nextList' = nextList + 1
                /\ lists' = [lists EXCEPT ![nextList + 1] = <<m>>]
                /\ buffer' = [buffer EXCEPT ![g] = nextList + 1]
           ELSE /\ lists' = [lists EXCEPT ![buffer[g]] = Append(@, m)]
                /\ UNCHANGED <<nextList, buffer>>
        /\ pc' = [pc EXCEPT ![m] = "sleep"]
        /\ late' = IF Checked(g) THEN late \cup {g} ELSE late
        /\ gapBroken' = IF \E k \in prev : /\ \A j \in prev : j <= k
                                           /\ pc[k] # "sleep"
                        THEN gapBroken \cup {g} ELSE gapBroken
    /\ UNCHANGED <<loc, metadata, metadata_file, dirs, result, replied,
                   saveCalls, overlap, succFolders, stats_text>>

\* Lines 178-183: a photo with caption c outside any album is archived at once as the
\* one-message list [message].
ArriveSingle(c) ==
    /\ nextMsg < MaxMsgs
    /\ LET m == nextMsg + 1 IN
        /\ nextMsg' = m
        /\ group' = [group EXCEPT ![m] = NoGroup]
        /\ nextList' = nextList + 1
        /\ lists' = [lists EXCEPT ![nextList + 1] = <<m>>]
        /\ caption' = [caption EXCEPT ![m] = c]
        /\ save_begin(m, NoGroup, SingleId(m), nextList + 1, 1, c)
    /\ UNCHANGED <<late, gapBroken, stats_text>>

\* asyncio.sleep(1) timers expire in the order in which they were started.
SleepOver(h) == pc[h] = "sleep" /\ \A k \in 1..(h - 1) : pc[k] # "sleep"

\* Line 162 with nothing to flush: media_group_buffer[media_group_id] is a
\* defaultdict lookup, so on a missing key it inserts a new empty list; that
\* list, like an existing empty one, is falsy and the coroutine ends.
WakeNoFlush(h) ==
    /\ SleepOver(h)
    /\ IF buffer[group[h]] = NoEntry
       THEN /\ nextList' = nextList + 1
            /\ buffer' = [buffer EXCEPT ![group[h]] = nextList + 1]
       ELSE /\ lists[buffer[group[h]]] = <<>>
            /\ UNCHANGED <<nextList, buffer>>
    /\ pc' = [pc EXCEPT ![h] = "done"]
    /\ UNCHANGED <<nextMsg, group, caption, stats_text, loc, lists, metadata, metadata_file, dirs,
                   result, replied, saveCalls, late, gapBroken, overlap,
                   succFolders>>

\* Lines 162-166: the entry is non-empty; messages is the buffered list object
\* itself (no copy), and the entry stays in the buffer.
WakeFlush(h) ==
    /\ SleepOver(h)
    /\ buffer[group[h]] # NoEntry
    /\ lists[buffer[group[h]]] # <<>>
    /\ save_begin(h, group[h], group[h], buffer[group[h]],
                  Len(lists[buffer[group[h]]]),
                  caption[lists[buffer[group[h]]][1]])
    /\ UNCHANGED <<nextMsg, group, caption, stats_text, lists, nextList, late, gapBroken>>

\* Line 99: photo.get_file() returns.
GetFileOk(h) ==
    /\ pc[h] = "get_file"
    /\ pc' = [pc EXCEPT ![h] = "download"]
    /\ UNCHANGED <<nextMsg, group, caption, stats_text, loc, lists, nextList, buffer, metadata,
                   metadata_file, dirs, result, replied, saveCalls, late,
                   gapBroken, overlap, succFolders>>

\* Line 99 raises: lines 138-140 return False.
GetFileFail(h) ==
    /\ pc[h] = "get_file"
    /\ save_return(h, group[h], "fail_get_file", loc[h].folder)
    /\ UNCHANGED <<nextMsg, group, caption, stats_text, loc, lists, nextList, metadata,
                   metadata_file, dirs, saveCalls, late, gapBroken, overlap>>

\* Line 107 raises: lines 138-140 return False.
DownloadFail(h) ==
    /\ pc[h] = "download"
    /\ save_return(h, group[h], "fail_download", loc[h].folder)
    /\ UNCHANGED <<nextMsg, group, caption, stats_text, loc, lists, nextList, metadata,
                   metadata_file, dirs, saveCalls, late, gapBroken, overlap>>

\* The message the loop of line 86 is at: enumerate reads the live list.
CurrentMsg(h) == lists[loc[h].list][loc[h].idx]

\* Lines 107-115: the file is on disk and its entry is appended to files.
FilesAfter(h) ==
    Append(loc[h].files, [file_id |-> CurrentMsg(h), filename |-> Filename(loc[h].idx)])

\* Lines 107-117 then 86-99: the download succeeded and the list has a next
\* message (its length is read now, not at the call).
DownloadNext(h) ==
    /\ pc[h] = "download"
    /\ loc[h].idx < Len(lists[loc[h].list])
    /\ dirs' = [dirs EXCEPT ![loc[h].folder].photos =
                  PutPhoto(@, Filename(loc[h].idx), CurrentMsg(h))]
    /\ loc' = [loc EXCEPT ![h].files = FilesAfter(h), ![h].idx = @ + 1,
                           ![h].caption =
                               CaptionAt(loc[h].idx + 1,
                                         caption[lists[loc[h].list][loc[h].idx + 1]],
                                         @)]
    /\ pc' = [pc EXCEPT ![h] = "get_file"]
    /\ UNCHANGED <<nextMsg, group, caption, stats_text, lists, nextList, buffer, metadata,
                   metadata_file, result, replied, saveCalls, late, gapBroken,
                   overlap, succFolders>>

\* Lines 75-83 and 109-115: the GroupRecord written to info.json.
GroupInfo(h) ==
    [media_group_id |-> loc[h].gid, caption |-> loc[h].caption,
     message_count |-> loc[h].message_count, files |-> FilesAfter(h)]

\* Lines 107-122 with the write of info.json raising: return False.
\* The descriptor is kept as it was: open() raised before truncating it.
DownloadLastInfoFail(h) ==
    /\ pc[h] = "download"
    /\ loc[h].idx >= Len(lists[loc[h].list])
    /\ dirs' = [dirs EXCEPT ![loc[h].folder].photos =
                  PutPhoto(@, Filename(loc[h].idx), CurrentMsg(h))]
    /\ loc' = [loc EXCEPT ![h].files = FilesAfter(h)]
    /\ save_return(h, group[h], "fail_info", loc[h].folder)
    /\ UNCHANGED <<nextMsg, group, caption, stats_text, lists, nextList, metadata, metadata_file,
                   saveCalls, late, gapBroken, overlap>>

\* Lines 107-140: the last download succeeded, info.json is written, the
\* index is updated in memory and _save_metadata writes it (or raises).
DownloadLast(h) ==
    /\ pc[h] = "download"
    /\ loc[h].idx >= Len(lists[loc[h].list])
    /\ dirs' = [dirs EXCEPT ![loc[h].folder].photos =
                  PutPhoto(@, Filename(loc[h].idx), CurrentMsg(h)),
                            ![loc[h].folder].info = GroupInfo(h)]
    /\ loc' = [loc EXCEPT ![h].files = FilesAfter(h)]
    /\ metadata' = CommitIndex(metadata, loc[h].gid, loc[h].folder,
                               Len(FilesAfter(h)), loc[h].caption)
    /\ \E outcome \in SaveOutcomes :
        /\ metadata_file' = save_metadata(metadata', metadata_file, outcome)
        /\ save_return(h, group[h],
                       IF outcome = "ok" THEN "ok" ELSE "fail_index",
                       loc[h].folder)
    /\ UNCHANGED <<nextMsg, group, caption, stats_text, lists, nextList, saveCalls, late,
                   gapBroken, overlap>>

\* Lines 170-175 / 186: reply_text returns; an album coroutine then deletes
\* the buffer entry.
ReplyOk(h) ==
    /\ pc[h] = "reply"
    /\ IF group[h] # NoGroup
       THEN del_entry(h, group[h])
       ELSE /\ pc' = [pc EXCEPT ![h] = "done"]
            /\ UNCHANGED buffer
    /\ UNCHANGED <<nextMsg, group, caption, stats_text, loc, lists, nextList, metadata,
                   metadata_file, dirs, result, replied, saveCalls, late,
                   gapBroken, overlap, succFolders>>

\* reply_text raises: the exception leaves handle_media, line 175 is skipped.
ReplyFail(h) ==
    /\ pc[h] = "reply"
    /\ pc' = [pc EXCEPT ![h] = "raised"]
    /\ UNCHANGED <<nextMsg, group, caption, stats_text, loc, lists, nextList, buffer, metadata,
                   metadata_file, dirs, result, replied, saveCalls, late,
                   gapBroken, overlap, succFolders>>

\* What the coroutines do once their messages have arrived.
Run ==
    \/ \E h \in Msgs : WakeNoFlush(h)
    \/ \E h \in Msgs : WakeFlush(h)
    \/ \E h \in Msgs : GetFileOk(h)
    \/ \E h \in Msgs : GetFileFail(h)
    \/ \E h \in Msgs : DownloadFail(h)
    \/ \E h \in Msgs : DownloadNext(h)
    \/ \E h \in Msgs : DownloadLastInfoFail(h)
    \/ \E h \in Msgs : DownloadLast(h)
    \/ \E h \in Msgs : ReplyOk(h)
    \/ \E h \in Msgs : ReplyFail(h)

\* Messages without captions.
Next ==
    \/ \E g \in GroupIds : ArriveGrouped(g, NoCaption)
    \/ ArriveSingle(NoCaption)
    \/ Run

Spec == Init /\ [][Next]_vars

\* stats_command (lines 201-209): the text is built from the in-memory index
\* and handed to reply_text; nothing else is read or written.
StatsCommand ==
    /\ stats_text' = [sent |-> TRUE, groups |-> Len(metadata.groups),
                      total_files |-> metadata["total_files"]]
    /\ UNCHANGED <<nextMsg, group, caption, pc, loc, lists, nextList, buffer,
                   metadata, metadata_file, dirs, result, replied, saveCalls,
                   late, gapBroken, overlap, succFolders>>

\* The archiver together with the /stats command.
NextStats == Next \/ StatsCommand

SpecStats == Init /\ [][NextStats]_vars

\* The summaries a stored index may hold at position i of its list: the
\* folder number of the i-th archive is at most i.
Summaries(i) ==
    [group_id : AllIds, folder : 1..i, files_count : 1..MaxMsgs,
     caption : {NoCaption, [text |-> 1, len |-> CaptionLimit]}]

\* The indexes of up to MaxMsgs archived groups.
ValidIndexes ==
    {[groups |-> gs, total_files |-> SumFiles(gs)] :
        gs \in UNION {{g \in [1..n -> Summaries(n)] :
                          \A i \in 1..n : g[i].folder <= i} : n \in 0..MaxMsgs}}

\* The metadata store with any valid index in memory and nothing on disk yet.
InitStore ==
    /\ NoTraffic
    /\ metadata \in ValidIndexes
    /\ metadata_file = Absent

\* _save_metadata (lines 61-64) on the index in memory.
SaveIndex ==
    /\ \E outcome \in SaveOutcomes :
          metadata_file' = save_metadata(metadata, metadata_file, outcome)
    /\ UNCHANGED <<nextMsg, group, caption, pc, loc, lists, nextList, buffer,
                   metadata, dirs, result, replied, saveCalls, late,
                   gapBroken, overlap, succFolders, stats_text>>

\* The bot is started again: line 52 loads the index (json.load raises on a
\* partially written file and the bot does not start).
LoadIndex ==
    /\ metadata_file.state # "partial"
    /\ metadata' = load_metadata(metadata_file)
    /\ UNCHANGED <<nextMsg, group, caption, pc, loc, lists, nextList, buffer,
                   metadata_file, dirs, result, replied, saveCalls, late,
                   gapBroken, overlap, succFolders, stats_text>>

\* The metadata store alone: saves and restarts.
NextStore == SaveIndex \/ LoadIndex

SpecStore == InitStore /\ [][NextStore]_vars

\* No save_media_group call has ended in its except clause (lines 138-140).
NoIOFailure == \A h \in Msgs : result[h] \notin Failures

\* Messages with and without captions, in the runs in which mkdir, get_file,
\* download_to_drive, reply_text and the writes of info.json and
\* metadata.json all succeed.
NextCaption ==
    \/ \E g \in GroupIds : \E c \in Captions(nextMsg + 1) :
           ArriveGrouped(g, c)
    \/ \E c \in Captions(nextMsg + 1) : ArriveSingle(c) /\ NoIOFailure'
    \/ \E h \in Msgs : WakeNoFlush(h)
    \/ \E h \in Msgs : WakeFlush(h) /\ NoIOFailure'
    \/ \E h \in Msgs : GetFileOk(h)
    \/ \E h \in Msgs : DownloadNext(h)
    \/ \E h \in Msgs : DownloadLast(h) /\ NoIOFailure'
    \/ \E h \in Msgs : ReplyOk(h)

SpecCaption == Init /\ [][NextCaption]_vars

----------------------------------------------------------------------------
\* Properties

\* Coroutine h has ended (normally, or by an exception leaving handle_media).
Finished(h) == pc[h] \in {"done", "raised"}

\* The messages of album g delivered so far.
MsgsOf(g) == {m \in Msgs : pc[m] # "idle" /\ group[m] = g}

\* The index summaries of group id gid.
SummariesOf(gid) ==
    {i \in DOMAIN metadata.groups : metadata.groups[i].group_id = gid}

\* C1: when all messages of a group are appended before the group's first
\* flush check runs, save_media_group is invoked exactly once for the group:
\* no call before the first check, one call from then on.
C1_FlushExactlyOnce ==
    \A g \in GroupIds :
        g \notin late => saveCalls[g] = IF Checked(g) THEN 1 ELSE 0

\* C2: when every message of a group arrived while the previous message's
\* coroutine was still sleeping, and no archive step of the group failed, then
\* once the group's coroutines have ended the index holds exactly one summary
\* of the group and its GroupRecord has message_count = number of messages.
C2_OneRecordPerBurst ==
    \A g \in GroupIds :
        ( /\ MsgsOf(g) # {}
          /\ g \notin gapBroken
          /\ \A h \in MsgsOf(g) : Finished(h) /\ result[h] \notin Failures )
        => /\ Cardinality(SummariesOf(g)) = 1
           /\ \A i \in SummariesOf(g) :
                dirs[metadata.groups[i].folder].info.message_count
                    = Cardinality(MsgsOf(g))

\* C3: in every reachable state, under every interleaving of successful and
\* failed archives, total_files is the sum of files_count over the groups.
C3_TotalFilesIsSum ==
    metadata.total_files = SumFiles(metadata.groups)

\* C3 witness: two archives interleaved, one of them failed at the index
\* write, and both summaries are in the in-memory index.
C3_Witness ==
    /\ overlap
    /\ Len(metadata.groups) = 2
    /\ metadata.total_files > 2
    /\ \E h \in Msgs : result[h] = "fail_index"

\* C4: after a failed attachment retrieval nothing of the group is persisted:
\* no group folder, no downloaded file, no descriptor, no index entry.
C4_FailedRetrievalPersistsNothing ==
    \A h \in Msgs :
        result[h] \in {"fail_get_file", "fail_download"}
        => /\ ~dirs[loc[h].folder].exists
           /\ dirs[loc[h].folder].photos = {}
           /\ dirs[loc[h].folder].info = NoInfo
           /\ SummariesOf(loc[h].gid) = {}

\* C5: a step in which save_media_group returns failure, whichever step
\* failed, leaves the in-memory index and metadata.json as they were, and
\* the in-memory index equal to the persisted one.
C5_FailureLeavesIndex ==
    [][ \A h \in Msgs :
          (result[h] = "none" /\ result'[h] \in Failures)
          => /\ metadata' = metadata
             /\ metadata_file' = metadata_file
             /\ load_metadata(metadata_file') = metadata' ]_vars

\* C6: while no two archive operations overlap, the Nth successful
\* save_media_group wrote to folder N, and the index entries name the folders
\* 1, 2, 3, ... in order.
C6_SequentialFolderNumbers ==
    ~overlap =>
        /\ \A i \in DOMAIN succFolders : succFolders[i] = i
        /\ \A i \in DOMAIN metadata.groups : metadata.groups[i].folder = i

\* C7: once every handle_media coroutine of a group has ended, the buffer
\* holds no entry for the group, not even an empty one.
C7_NoEntryAfterAllFinished ==
    \A g \in GroupIds :
        (MsgsOf(g) # {} /\ \A h \in MsgsOf(g) : Finished(h))
        => buffer[g] = NoEntry

\* C8: while save_media_group runs for an album, the buffer has no entry
\* holding the list of messages being archived.
C8_EntryTakenBeforeArchive ==
    \A h \in Msgs :
        (pc[h] \in InArchive /\ group[h] # NoGroup)
        => buffer[group[h]] # loc[h].list

\* C9: reply_text was called by a coroutine if and only if its
\* save_media_group call returned success.
C9_ReplyIffSuccess ==
    \A h \in Msgs : replied[h] <=> result[h] = "ok"

\* C9 witness: an album flush that succeeded and was confirmed, and a
\* single-photo archive that failed and was not.
C9_Witness ==
    \E h, k \in Msgs :
        /\ group[h] # NoGroup /\ result[h] = "ok" /\ replied[h]
        /\ pc[k] # "idle" /\ group[k] = NoGroup
        /\ result[k] \in Failures /\ ~replied[k]

\* A single-photo coroutine (a message without a group id) that has started.
IsSingle(h) == pc[h] # "idle" /\ group[h] = NoGroup

\* C10: a photo without a group id leaves the buffer unchanged in every step
\* of its handling; save_media_group was called exactly once for its id
\* 'single_<message id>', which is no platform group id, with the
\* one-message list [message]; every GroupRecord of that id has
\* message_count 1.
C10_SinglePhoto ==
    /\ [](\A h \in Msgs : IsSingle(h) =>
            /\ SingleId(h) \notin GroupIds
            /\ saveCalls[SingleId(h)] = 1
            /\ result[h] # "fail_mkdir" =>
                 /\ loc[h].gid = SingleId(h)
                 /\ loc[h].message_count = 1
                 /\ lists[loc[h].list] = <<h>>
            /\ \A f \in Folders :
                 dirs[f].info.media_group_id = SingleId(h)
                 => dirs[f].info.message_count = 1)
    /\ [][ \A h \in Msgs :
             (pc'[h] # pc[h] /\ group'[h] = NoGroup) => buffer' = buffer ]_vars

\* C10 witness: a single photo was archived into a GroupRecord while an album
\* is being buffered.
C10_Witness ==
    \E h \in Msgs :
        /\ IsSingle(h) /\ result[h] = "ok"
        /\ dirs[loc[h].folder].info.media_group_id = SingleId(h)
        /\ \E g \in GroupIds : buffer[g] # NoEntry /\ lists[buffer[g]] # <<>>

\* The first message of the list handed to coroutine h's save_media_group.
FirstMsg(h) == lists[loc[h].list][1]

\* C11: the caption of a GroupRecord, and of a record being built, is the
\* caption of the first message of the list handed to save_media_group
\* (empty when it has none), whatever the later messages carry, and every
\* index summary holds the first 100 characters of that caption.
C11_CaptionOfFirstMessage ==
    /\ \A h \in Msgs :
         loc[h].list # 0 => loc[h].caption = caption[FirstMsg(h)]
    /\ \A f \in Folders :
         dirs[f].info.files # <<>>
         => dirs[f].info.caption = caption[dirs[f].info.files[1].file_id]
    /\ \A i \in DOMAIN metadata.groups :
         /\ metadata.groups[i].caption.len <= CaptionLimit
         /\ \E h \in Msgs :
              /\ result[h] = "ok"
              /\ loc[h].gid = metadata.groups[i].group_id
              /\ loc[h].folder = metadata.groups[i].folder
              /\ metadata.groups[i].caption.text = caption[FirstMsg(h)].text
              /\ metadata.groups[i].caption.len =
                   IF caption[FirstMsg(h)].len < CaptionLimit
                   THEN caption[FirstMsg(h)].len ELSE CaptionLimit

\* C11 witness: a two-message album whose first caption is longer than the
\* limit and whose second message carries a caption of its own was archived:
\* the record holds the first caption in full, the summary its first 100
\* characters.
C11_Witness ==
    \E f \in Folders : \E i \in DOMAIN metadata.groups :
        /\ dirs[f].info.message_count = 2
        /\ Len(dirs[f].info.files) = 2
        /\ dirs[f].info.caption.len = CaptionLimit + 1
        /\ caption[dirs[f].info.files[2].file_id] # NoCaption
        /\ metadata.groups[i].folder = f
        /\ metadata.groups[i].caption.len = CaptionLimit

\* The coroutines whose save_media_group call has returned True.
Succeeded == {h \in Msgs : result[h] = "ok"}

\* The number of files archived by the calls of the coroutines in S.
RECURSIVE FilesOf(_)
FilesOf(S) == IF S = {} THEN 0
              ELSE LET h == CHOOSE x \in S : TRUE
                   IN Len(loc[h].files) + FilesOf(S \ {h})

\* C12: whenever the stats command runs, the group count it reports is the
\* number of archive operations that have succeeded so far, the file total
\* is the sum of their file counts, and the index (in memory and on disk)
\* and the buffer are left as they were.
C12_StatsReportsSuccesses ==
    [][StatsCommand =>
         /\ stats_text'.groups = Cardinality(Succeeded)
         /\ stats_text'.total_files = FilesOf(Succeeded)
         /\ metadata' = metadata /\ metadata_file' = metadata_file
         /\ buffer' = buffer /\ lists' = lists]_vars

\* Coroutine h's save_media_group call returns in this step.
Completes(h) == result[h] = "none" /\ result'[h] # "none"

\* C13: the groups list of the index is append-only, in completion order:
\* a step either leaves the list as it is or puts exactly one summary
\* behind the unchanged existing ones, and that summary is the one of the
\* archive operation that completes in that very step.
C13_GroupsAppendOnly ==
    [][\/ metadata'.groups = metadata.groups
       \/ /\ Len(metadata'.groups) = Len(metadata.groups) + 1
          /\ SubSeq(metadata'.groups, 1, Len(metadata.groups)) = metadata.groups
          /\ \E h \in Msgs :
               /\ Completes(h)
               /\ metadata'.groups[Len(metadata'.groups)].group_id = loc[h].gid
               /\ metadata'.groups[Len(metadata'.groups)].folder = loc[h].folder
      ]_vars

\* C13 witness: two archive operations have completed in the order opposite
\* to the arrival of their messages, and the list holds their summaries in
\* completion order.
C13_Witness ==
    /\ Len(metadata.groups) = 2
    /\ \E h, k \in Msgs :
         /\ h < k
         /\ loc[h].gid # loc[k].gid
         /\ metadata.groups[1].group_id = loc[k].gid
         /\ metadata.groups[2].group_id = loc[h].gid

\* C14: saving the index never exposes a partially written file: at every
\* moment metadata.json is either missing or holds the complete text of an
\* index.
C14_NoPartialIndexFile == metadata_file.state # "partial"

\* C15: for every valid index, loading what a save of it wrote returns an
\* equal index; and loading when metadata.json does not exist returns the
\* empty index {groups: [], total_files: 0}.
C15_LoadSaveRoundTrip ==
    /\ load_metadata(save_metadata(metadata, metadata_file, "ok")) = metadata
    /\ metadata_file.state = "written"
       => load_metadata(metadata_file) = metadata
    /\ load_metadata(Absent) = [groups |-> <<>>, total_files |-> 0]

\* C15 witness: an index of two groups, one with a caption, has been saved
\* to metadata.json, and loading the file returns it.
C15_Witness ==
    /\ metadata_file.state = "written"
    /\ Len(metadata.groups) = 2
    /\ metadata.groups[1].caption # NoCaption
    /\ metadata.groups[1].group_id # metadata.groups[2].group_id
    /\ load_metadata(metadata_file) = metadata

\* A sequence of messages is in arrival order (message k is the k-th to
\* arrive).
InArrivalOrder(ms) == \A i, j \in DOMAIN ms : i < j => ms[i] < ms[j]

\* The files list fs names, in order, the first messages of list object l,
\* the k-th one stored as photo_0k.
FilesFollow(fs, l) ==
    /\ Len(fs) <= Len(lists[l])
    /\ \A k \in DOMAIN fs :
         /\ fs[k].file_id = lists[l][k]
         /\ fs[k].filename = "photo_0" \o ToString(k)

\* C16: the messages of a group id are buffered in arrival order, and the
\* files list of every GroupRecord, written or being built, lists the
\* photos of the handed list in that same order, the k-th message stored as
\* photo_<k> (1-based, two digits).
C16_ArrivalOrderKept ==
    /\ \A l \in ListIds : InArrivalOrder(lists[l])
    /\ \A h \in Msgs : loc[h].list # 0 => FilesFollow(loc[h].files, loc[h].list)
    /\ \A f \in Folders :
         dirs[f].info # NoInfo
         => /\ InArrivalOrder([k \in DOMAIN dirs[f].info.files |->
                                  dirs[f].info.files[k].file_id])
            /\ \E h \in Msgs :
                 /\ loc[h].folder = f
                 /\ loc[h].gid = dirs[f].info.media_group_id
                 /\ FilesFollow(dirs[f].info.files, loc[h].list)

\* C16 witness: the record of an album of two messages has been written,
\* its files being photo_01 of the first message and photo_02 of the second.
C16_Witness ==
    \E f \in Folders :
        /\ dirs[f].info.media_group_id \in GroupIds
        /\ Len(dirs[f].info.files) = 2
        /\ dirs[f].info.files[1] = [file_id |-> 1, filename |-> "photo_01"]
        /\ dirs[f].info.files[2] = [file_id |-> 2, filename |-> "photo_02"]

\* Message m was in the list handed to some save_media_group call when the
\* call was made, or the loop of such a call came to it later.
Included(m) ==
    \E h \in Msgs :
        /\ loc[h].list # 0
        /\ \E k \in DOMAIN lists[loc[h].list] :
             /\ lists[loc[h].list][k] = m
             /\ (k <= loc[h].message_count \/ k <= loc[h].idx)

\* C17: no buffered message is lost: once every coroutine of a group has
\* ended (none of them on a failed mkdir, which keeps no trace of the list
\* it was handed), each message of the group was in the list processed by
\* some save_media_group call.
C17_NoBufferedMessageLost ==
    \A m \in 1..nextMsg :
        (/\ group[m] # NoGroup
         /\ \A k \in MsgsOf(group[m]) :
              Finished(k) /\ result[k] # "fail_mkdir")
        => Included(m)

\* C18: under any interleaving of archive operations, no two summaries of
\* the index name the same folder, and no two archive operations write
\* their files and descriptor into the same group folder.
C18_FoldersNotShared ==
    /\ \A i, j \in DOMAIN metadata.groups :
         i # j => metadata.groups[i].folder # metadata.groups[j].folder
    /\ \A h, k \in Msgs :
         (h # k /\ loc[h].folder # 0 /\ loc[k].folder # 0)
         => loc[h].folder # loc[k].folder

\* C19: in every GroupRecord written, message_count is the number of
\* messages the operation iterated (each of them a photo with one entry in
\* files), so files never has more entries than message_count.
C19_MessageCountIsIterated ==
    \A f \in Folders :
        dirs[f].info # NoInfo
        => /\ Len(dirs[f].info.files) <= dirs[f].info.message_count
           /\ dirs[f].info.message_count = Len(dirs[f].info.files)

\* C20: every handle_media invocation ends normally: a coroutine that
\* reaches the del of line 175, after a failed archive or after its
\* confirmation was sent, finds the entry of its group in the buffer, so no
\* step of an album coroutine other than a failing reply_text ends it with
\* an exception.
C20_EntryPresentAtRemoval ==
    [][\A h \in Msgs :
          (pc[h] \in InArchive \cup {"reply"} /\ pc'[h] = "raised")
          => ReplyFail(h)]_vars

====
